---- MODULE Spec2Model ----
(***************************************************************************)
(* Meter Data Processing App (src/app.py).                                 *)
(*                                                                         *)
(* Specifications over one set of variables:                               *)
(*   SpecCorr  detect_and_correct_abnormal_readings on a normalized        *)
(*             series, one action per loop iteration;                      *)
(*   Spec      calculate_meter_consumption on one meter's frame            *)
(*             (normalize, correct, derive consumption, align);            *)
(*   SpecRows  Spec on the frames that have at least one row;              *)
(*   SpecMain  the batch loop of main over the unique meters, calling      *)
(*             calculate_meter_consumption and packaging each result.      *)
(*                                                                         *)
(* Representation.  A timestamp is the number of minutes since             *)
(* 2025-01-01 00:00; NaT is the value pandas gives an unparsable one.  A   *)
(* numeric cell is a record [na, v]: na is pandas' NaN, v the float64      *)
(* value as a fixed-point integer in units of 1/Unit, so that the halving  *)
(* in the corrector stays exact.  The DataFrame setitem at lines 44 and 51 *)
(* is taken to upcast an integer column (pandas 2 behaviour).              *)
(***************************************************************************)
EXTENDS Integers, Sequences, FiniteSets, TLC

VARIABLES
    tolerance_percentage,  \* st.number_input, in tenths of a percent
    enable_correction,     \* st.checkbox
    master_timestamps,     \* generate_master_timeline()
    combined_data,         \* main: the concatenated uploaded rows
    unique_meters,         \* main: combined_data['Meter'].unique()
    raises,                \* main: meters whose loop body raises an exception
    zip_file,              \* main: entries written with zip_file.writestr
    processed_meters,      \* main: counter
    download,              \* main: what st.download_button was given
    main_pc,               \* main: position
    meter,                 \* main: the loop variable
    frame,                 \* the frame main filtered for the meter
    meter_data,            \* calculate_meter_consumption: its copy of the frame
    before,                \* the frame as passed to the corrector (history)
    i,                     \* detect_and_correct_abnormal_readings: loop index
    result_df,             \* calculate_meter_consumption: returned frame
    pc                     \* position in calculate_meter_consumption

vars == <<tolerance_percentage, enable_correction, master_timestamps,
          combined_data, unique_meters, raises, zip_file, processed_meters,
          download, main_pc, meter, frame, meter_data, before, i, result_df, pc>>

mainVars == <<combined_data, unique_meters, raises, zip_file,
              processed_meters, download, main_pc>>

widgetVars == <<tolerance_percentage, enable_correction>>

-----------------------------------------------------------------------------
(* Bounds *)

\* longest series handed to the corrector in SpecCorr
MaxLen == 4

\* most rows of one meter's frame in Spec
MaxRows == 3

\* number of slots of the (shortened) master timeline
MaxSlots == 3

\* most rows of combined_data in SpecMain
MaxCombined == 3

-----------------------------------------------------------------------------
(* Values *)

RECURSIVE Pow2(_)
Pow2(n) == IF n = 0 THEN 1 ELSE 2 * Pow2(n - 1)

\* fixed-point unit of a reading: every chain of halvings the corrector can
\* make on a series of the bounded lengths stays an integer
Unit == Pow2(MaxLen + MaxRows)

Abs(x) == IF x < 0 THEN 0 - x ELSE x

NaT == 0 - 1

NaN == [na |-> TRUE, v |-> 0]

Num(x) == [na |-> FALSE, v |-> x]

Step == 15

start == 0

end == start + (MaxSlots - 1) * Step

RECURSIVE Timeline(_)
Timeline(current) ==
    IF current <= end
    THEN <<current>> \o Timeline(current + Step)
    ELSE <<>>

generate_master_timeline == Timeline(start)

master_ts == generate_master_timeline

-----------------------------------------------------------------------------
(* detect_and_correct_abnormal_readings *)

\* the number hard-coded in the comparisons: 0.01 = 1 / Tolerance
Tolerance == 100

\* numpy true division by zero yields inf or nan with a RuntimeWarning; it
\* does not raise (the operands are numpy scalars read with .loc)
DivisionRaisesPython == TRUE
DivisionRaises == FALSE

\* abs(cur - m * n) / n < 0.01 as numpy evaluates it
RelErrBelow(cur, m, n) ==
    IF cur.na \/ n.na THEN FALSE            \* a comparison with nan is False
    ELSE IF n.v = 0 THEN FALSE              \* inf < 0.01 and nan < 0.01
    ELSE IF n.v > 0 THEN Tolerance * Abs(cur.v - m * n.v) < n.v
    ELSE TRUE                               \* the quotient is <= 0

\* the condition of the if (m = 2) and of the elif (m = 3)
IsMultiple(cur, prev, next, m) ==
    RelErrBelow(cur, m, prev) /\ RelErrBelow(cur, m, next)

\* a division by a zero neighbour is evaluated at index k (0-based), with
\* the short-circuit of `and` and of if / elif
DividesByZero(md, k) ==
    LET cur == md[k + 1].Reading
        prev == md[k].Reading
        next == md[k + 2].Reading
        zero(n) == ~n.na /\ n.v = 0
    IN  \/ zero(prev)
        \/ zero(next) /\ (RelErrBelow(cur, 2, prev) \/ RelErrBelow(cur, 3, prev))

\* (prev_reading + next_reading) / 2
Mean(prev, next) == Num((prev.v + next.v) \div 2)

\* the loop body for index k (0-based, as in the code): the frame after it
CorrectAtOnly2x(md, k) ==
    LET cur == md[k + 1].Reading
        prev == md[k].Reading
        next == md[k + 2].Reading
    IN  IF IsMultiple(cur, prev, next, 2)
        THEN [md EXCEPT ![k + 1].Reading = Mean(prev, next)]
        ELSE md
CorrectAt(md, k) ==
    LET cur == md[k + 1].Reading
        prev == md[k].Reading
        next == md[k + 2].Reading
    IN  IF IsMultiple(cur, prev, next, 2)
        THEN [md EXCEPT ![k + 1].Reading = Mean(prev, next)]
        ELSE IF IsMultiple(cur, prev, next, 3)
        THEN [md EXCEPT ![k + 1].Reading = Mean(prev, next)]
        ELSE md

\* the rows of s whose index is in keep, in order
RECURSIVE Pick(_, _, _)
Pick(s, keep, k) ==
    IF k > Len(s) THEN <<>>
    ELSE (IF k \in keep THEN <<s[k]>> ELSE <<>>) \o Pick(s, keep, k + 1)

\* sort_values('Timestamp'): the default kind is quicksort, which is not
\* stable, so rows with equal timestamps may come out in any order; the
\* set of all ascending arrangements of the rows
RECURSIVE SortValues(_)
SortValues(md) ==
    IF md = <<>> THEN {<<>>}
    ELSE LET least == {k \in 1..Len(md) :
                         \A j \in 1..Len(md) :
                            md[k].Timestamp <= md[j].Timestamp}
         IN  UNION {{<<md[k]>> \o rest :
                       rest \in SortValues(Pick(md, (1..Len(md)) \ {k}, 1))}
                    : k \in least}

\* lines 23-31: the length test, the sort and reset_index; the two diff
\* columns added at lines 30-31 are never read
DetectEnter ==
    /\ pc = "normalized"
    /\ before' = meter_data
    /\ IF Len(meter_data) < 3
       THEN /\ pc' = "corrected"
            /\ UNCHANGED <<meter_data, i>>
       ELSE /\ \E s \in SortValues(meter_data) : meter_data' = s
            /\ i' = 1
            /\ pc' = "sweep"
    /\ UNCHANGED <<meter, frame, result_df, master_timestamps>>
    /\ UNCHANGED mainVars
    /\ UNCHANGED widgetVars

\* lines 34-52: one iteration of for i in range(1, len(meter_data) - 1)
DetectStep ==
    /\ pc = "sweep"
    /\ i <= Len(meter_data) - 2
    /\ IF DivisionRaises /\ DividesByZero(meter_data, i)
       THEN /\ pc' = "fault"
            /\ UNCHANGED <<meter_data, i>>
       ELSE /\ meter_data' = CorrectAt(meter_data, i)
            /\ i' = i + 1
            /\ pc' = pc
    /\ UNCHANGED <<meter, frame, before, result_df, master_timestamps>>
    /\ UNCHANGED mainVars
    /\ UNCHANGED widgetVars

\* line 54: the range is exhausted
DetectReturn ==
    /\ pc = "sweep"
    /\ i > Len(meter_data) - 2
    /\ pc' = "corrected"
    /\ UNCHANGED <<meter, frame, meter_data, before, i, result_df, master_timestamps>>
    /\ UNCHANGED mainVars
    /\ UNCHANGED widgetVars

-----------------------------------------------------------------------------
(* calculate_meter_consumption *)

\* pd.to_numeric(errors='coerce') on one cell: text that is no number
\* becomes NaN, a number becomes a float
ToNumeric(raw) == IF raw.text THEN NaN ELSE Num(raw.v * Unit)

\* meter_data['Energy Reading'] = pd.to_numeric(...)
Coerce(md) ==
    [k \in 1..Len(md) |-> [md[k] EXCEPT !.Reading = ToNumeric(@)]]

\* dropna(subset=['Timestamp'])
DropNaT(md) == Pick(md, {k \in 1..Len(md) : md[k].Timestamp # NaT}, 1)

\* drop_duplicates(subset=['Timestamp'], keep='first')
KeepDuplicates(md) == md
DropDuplicates(md) ==
    Pick(md, {k \in 1..Len(md) :
                \A j \in 1..(k - 1) : md[j].Timestamp # md[k].Timestamp}, 1)

\* meter_data[valid_mask], valid_mask = notna()
AllReadings(md) == md
ValidReadings(md) == Pick(md, {k \in 1..Len(md) : ~md[k].Reading.na}, 1)

\* float subtraction; nan if either operand is nan
Sub(a, b) == IF a.na \/ b.na THEN NaN ELSE Num(a.v - b.v)

\* valid_readings['Energy Reading'].diff()
Diff(vr) ==
    [k \in 1..Len(vr) |->
        [Timestamp |-> vr[k].Timestamp,
         VolumeConsumption |->
            IF k = 1 THEN NaN ELSE Sub(vr[k].Reading, vr[k - 1].Reading)]]

\* valid_readings.iloc[0, ...] = 0
FirstZero(vr) ==
    IF vr = <<>> THEN vr ELSE [vr EXCEPT ![1].VolumeConsumption = Num(0)]

\* valid_readings.loc[valid_readings['Volume Consumption'] < 0, ...] = 0
KeepNegative(vr) == vr
ClampNegative(vr) ==
    [k \in 1..Len(vr) |->
        IF ~vr[k].VolumeConsumption.na /\ vr[k].VolumeConsumption.v < 0
        THEN [vr[k] EXCEPT !.VolumeConsumption = Num(0)]
        ELSE vr[k]]

\* master_df.merge(valid_readings[...], on='Timestamp', how='left'): for
\* each master timestamp, in order, one row per matching right row, or one
\* row with a missing value when there is none
RECURSIVE MergeLeft(_, _, _)
MergeLeft(master, vr, k) ==
    IF k > Len(master) THEN <<>>
    ELSE LET matches == Pick(vr, {j \in 1..Len(vr) :
                                    vr[j].Timestamp = master[k]}, 1)
         IN  (IF matches = <<>>
              THEN <<[Timestamp |-> master[k], VolumeConsumption |-> NaN]>>
              ELSE matches)
             \o MergeLeft(master, vr, k + 1)

\* fillna(0.0)
FillNa(df) ==
    [k \in 1..Len(df) |->
        IF df[k].VolumeConsumption.na
        THEN [df[k] EXCEPT !.VolumeConsumption = Num(0)]
        ELSE df[k]]

\* dt.strftime('%d/%m/%Y %H:%M'): the fields of the string, for a timestamp
\* in January 2025
Strftime(t) ==
    <<1 + t \div 1440, 1, 2025, (t % 1440) \div 60, t % 60>>

\* a datetime left as it is (the empty-frame return does not format)
Datetime(t) == <<t>>

\* lines 58-63: an empty frame
CalcEmpty ==
    /\ pc = "start"
    /\ frame = <<>>
    /\ result_df' = [k \in 1..Len(master_timestamps) |->
                        [Timestamp |-> Datetime(master_timestamps[k]),
                         Meter |-> "Unknown",
                         VolumeConsumption |-> Num(0)]]
    /\ pc' = "done"
    /\ UNCHANGED <<meter, frame, meter_data, before, i, master_timestamps>>
    /\ UNCHANGED mainVars
    /\ UNCHANGED widgetVars

\* lines 66-76: coerce, drop unparsed timestamps, sort, deduplicate
CalcNormalize ==
    /\ pc = "start"
    /\ frame # <<>>
    /\ \E s \in SortValues(DropNaT(Coerce(frame))) :
          meter_data' = DropDuplicates(s)
    /\ pc' = "normalized"
    /\ UNCHANGED <<meter, frame, before, i, result_df, master_timestamps>>
    /\ UNCHANGED mainVars
    /\ UNCHANGED widgetVars

\* lines 105-117: the branch with at least one valid reading
Aligned(md, master) ==
    LET vr == ClampNegative(FirstZero(Diff(ValidReadings(md))))
        merged == FillNa(MergeLeft(master, vr, 1))
    IN  [k \in 1..Len(merged) |->
            [Timestamp |-> Strftime(merged[k].Timestamp),
             Meter |-> md[1].Meter,
             VolumeConsumption |-> merged[k].VolumeConsumption]]

\* lines 120-127: the branch with no valid reading
AllZero(md, master) ==
    [k \in 1..Len(master) |->
        [Timestamp |-> Strftime(master[k]),
         Meter |-> IF md # <<>> THEN md[1].Meter ELSE "Unknown",
         VolumeConsumption |-> Num(0)]]

\* lines 81-127: the rest of the function after the corrector returned (the
\* two counts compared at line 83 are always equal)
CalcConsume ==
    /\ pc = "corrected"
    /\ result_df' = IF ValidReadings(meter_data) # <<>>
                    THEN Aligned(meter_data, master_timestamps)
                    ELSE AllZero(meter_data, master_timestamps)
    /\ pc' = "done"
    /\ UNCHANGED <<meter, frame, meter_data, before, i, master_timestamps>>
    /\ UNCHANGED mainVars
    /\ UNCHANGED widgetVars

NextCalc ==
    \/ CalcEmpty
    \/ CalcNormalize
    \/ DetectEnter
    \/ DetectStep
    \/ DetectReturn
    \/ CalcConsume

-----------------------------------------------------------------------------
(* Spec: calculate_meter_consumption on every frame of bounded size *)

\* the timestamps of input rows: unparsable, off the timeline, or one of
\* the first two slots of it
TsValues == {NaT, start, start + 7, start + Step}

RawValues == {0, 200, 400}

\* the cells of the Energy Reading column as read: text or a number
RawCells == {[text |-> TRUE, v |-> 0]}
            \cup {[text |-> FALSE, v |-> x] : x \in RawValues}

\* the frames main passes for meter m: its rows, in any order; the frame of
\* a NaN meter identifier is empty (NaN == NaN selects no row)
FramesOf(m) ==
    IF m = "nan" THEN {<<>>}
    ELSE UNION {[1..n -> [Timestamp : TsValues, Meter : {m},
                          Reading : RawCells]] : n \in 1..MaxRows}

Init ==
    /\ tolerance_percentage = 10
    /\ enable_correction = TRUE
    /\ master_timestamps = generate_master_timeline
    /\ combined_data = <<>>
    /\ unique_meters = <<>>
    /\ raises = {}
    /\ zip_file = <<>>
    /\ processed_meters = 0
    /\ download = <<>>
    /\ main_pc = "idle"
    /\ meter \in {"M1", "nan"}
    /\ frame \in FramesOf(meter)
    /\ meter_data = <<>>
    /\ before = <<>>
    /\ i = 0
    /\ result_df = <<>>
    /\ pc = "start"

Next == NextCalc

Spec == Init /\ [][Next]_vars

\* SpecRows: the same on the frames of the meters that have an identifier;
\* such a frame has at least one row
InitRows == Init /\ meter = "M1"

NextRows ==
    \/ CalcNormalize
    \/ DetectEnter
    \/ DetectStep
    \/ DetectReturn
    \/ CalcConsume

SpecRows == InitRows /\ [][NextRows]_vars

-----------------------------------------------------------------------------
(* main: the batch loop (SpecMain) *)

\* the text of an uploaded Timestamp cell: the fields of a string in the
\* format DD/MM/YYYY HH:MM, or text that is not in that format
BadText == <<0>>

\* pd.to_datetime(format='%d/%m/%Y %H:%M', errors='coerce') on one cell
ToDatetime(text) ==
    IF /\ Len(text) = 5
       /\ text[1] \in 1..31 /\ text[2] = 1 /\ text[3] = 2025
       /\ text[4] \in 0..23 /\ text[5] \in 0..59
    THEN (text[1] - 1) * 1440 + text[4] * 60 + text[5]
    ELSE NaT

\* combined_data['Meter'].unique(): the identifiers in order of first
\* appearance, a missing identifier (nan) among them
Unique(cd) ==
    LET firsts == Pick(cd, {k \in 1..Len(cd) :
                              \A j \in 1..(k - 1) : cd[j].Meter # cd[k].Meter}, 1)
    IN  [k \in 1..Len(firsts) |-> firsts[k].Meter]

\* combined_data[combined_data['Meter'] == meter]: nan equals nothing
Filter(cd, m) ==
    Pick(cd, {k \in 1..Len(cd) : m # "nan" /\ cd[k].Meter = m}, 1)

\* lines 217-237: convert the timestamps, list the unique meters
MainConvert ==
    /\ main_pc = "read"
    /\ combined_data' = [k \in 1..Len(combined_data) |->
                            [combined_data[k] EXCEPT
                                !.Timestamp = ToDatetime(@)]]
    /\ unique_meters' = Unique(combined_data)
    /\ zip_file' = <<>>
    /\ processed_meters' = 0
    /\ main_pc' = "loop"
    /\ UNCHANGED <<raises, download, meter, frame, meter_data, before, i,
                   result_df, pc, master_timestamps>>
    /\ UNCHANGED widgetVars

\* lines 240-243: the next meter is filtered and the pipeline is called
MainCall ==
    /\ main_pc = "loop"
    /\ processed_meters < Len(unique_meters)
    /\ meter' = unique_meters[processed_meters + 1]
    /\ meter' \notin raises
    /\ frame' = Filter(combined_data, meter')
    /\ pc' = "start"
    /\ main_pc' = "call"
    /\ UNCHANGED <<combined_data, unique_meters, raises, zip_file,
                   processed_meters, download, meter_data, before, i,
                   result_df, master_timestamps>>
    /\ UNCHANGED widgetVars

\* lines 311-313: the loop body raised for this meter; the one try block
\* around the whole run is left, the error is shown and no download is
\* offered
MainRaise ==
    /\ main_pc = "loop"
    /\ processed_meters < Len(unique_meters)
    /\ meter' = unique_meters[processed_meters + 1]
    /\ meter' \in raises
    /\ main_pc' = "failed"
    /\ UNCHANGED <<combined_data, unique_meters, raises, zip_file,
                   processed_meters, download, frame, meter_data, before, i,
                   result_df, pc, master_timestamps>>
    /\ UNCHANGED widgetVars

\* lines 245-256: the returned frame is written to the archive as
\* "<meter>.csv" and the counter is advanced
MainPackage ==
    /\ main_pc = "call"
    /\ pc = "done"
    /\ zip_file' = Append(zip_file, [name |-> meter, data |-> result_df])
    /\ processed_meters' = processed_meters + 1
    /\ main_pc' = "loop"
    /\ pc' = "returned"
    /\ UNCHANGED <<combined_data, unique_meters, raises, download, meter,
                   frame, meter_data, before, i, result_df,
                   master_timestamps>>
    /\ UNCHANGED widgetVars

\* lines 258-271: the loop is over, the archive is offered for download
\* (the sample and preview at lines 273-298 recompute the first meter for
\* display only)
MainComplete ==
    /\ main_pc = "loop"
    /\ processed_meters = Len(unique_meters)
    /\ download' = zip_file
    /\ main_pc' = "complete"
    /\ UNCHANGED <<combined_data, unique_meters, raises, zip_file,
                   processed_meters, meter, frame, meter_data, before, i,
                   result_df, pc, master_timestamps>>
    /\ UNCHANGED widgetVars

MainMeters == {"M1", "M2", "nan"}

MainCells == {[text |-> FALSE, v |-> 200]}

MainTimestamps == {BadText} \cup {Strftime(master_ts[k]) : k \in DOMAIN master_ts}

\* the rows read from the uploaded files, and the meters for which the loop
\* body raises (any exception inside the try block: a cell pandas cannot
\* process, memory, the archive write)
InitMain ==
    /\ tolerance_percentage = 10
    /\ enable_correction = TRUE
    /\ master_timestamps = generate_master_timeline
    /\ combined_data \in UNION {[1..n -> [Timestamp : MainTimestamps,
                                          Meter : MainMeters,
                                          Reading : MainCells]]
                                : n \in 1..MaxCombined}
    /\ unique_meters = <<>>
    /\ raises \in SUBSET (MainMeters \ {"nan"})
    /\ zip_file = <<>>
    /\ processed_meters = 0
    /\ download = <<>>
    /\ main_pc = "read"
    /\ meter = "nan"
    /\ frame = <<>>
    /\ meter_data = <<>>
    /\ before = <<>>
    /\ i = 0
    /\ result_df = <<>>
    /\ pc = "returned"

NextMain ==
    \/ MainConvert
    \/ MainCall
    \/ MainRaise
    \/ MainPackage
    \/ MainComplete
    \/ NextCalc

SpecMain == InitMain /\ [][NextMain]_vars

-----------------------------------------------------------------------------
(* SpecCorr: the corrector on every normalized series of bounded length *)

\* readings of the series, in reading units
CorrValues == {0 - 400, 0, 200, 400, 601}

CorrCells == {[text |-> TRUE, v |-> 0]}
             \cup {[text |-> FALSE, v |-> x] : x \in CorrValues}

\* tenths of a percent: the widget's minimum 0.1 and its default 1.0
TolerancePercentages == {1, 10}

\* frames that are in normal form but for the coercion: valid, unique,
\* ascending timestamps (here the consecutive slots from the start)
OrderedFrames ==
    UNION {{[k \in 1..n |-> [Timestamp |-> start + (k - 1) * Step,
                             Meter |-> "M1",
                             Reading |-> c[k]]] : c \in [1..n -> CorrCells]}
           : n \in 1..MaxLen}

InitCorr ==
    /\ tolerance_percentage \in TolerancePercentages
    /\ enable_correction \in BOOLEAN
    /\ master_timestamps = generate_master_timeline
    /\ combined_data = <<>>
    /\ unique_meters = <<>>
    /\ raises = {}
    /\ zip_file = <<>>
    /\ processed_meters = 0
    /\ download = <<>>
    /\ main_pc = "idle"
    /\ meter = "M1"
    /\ frame \in OrderedFrames
    /\ meter_data = Coerce(frame)
    /\ before = <<>>
    /\ i = 0
    /\ result_df = <<>>
    /\ pc = "normalized"

NextCorr == DetectEnter \/ DetectStep \/ DetectReturn

SpecCorr == InitCorr /\ [][NextCorr]_vars

-----------------------------------------------------------------------------
(* Properties of the corrector (SpecCorr) *)

Interior(md) == IF Len(md) < 3 THEN {} ELSE 2..(Len(md) - 1)

\* the neighbours the test at (1-based) row k used: the row before it as it
\* is after the pass, the row after it as it was before the pass
PrevOf(k) == meter_data[k - 1].Reading

NextOf(k) == before[k + 1].Reading

\* |c - m * n| / n < 0.01, with a zero or absent operand a non-match
WithinTolerance(c, m, n) ==
    /\ ~c.na
    /\ ~n.na
    /\ n.v # 0
    /\ (n.v < 0 \/ 100 * Abs(c.v - m * n.v) < n.v)

Readings(md) == [k \in 1..Len(md) |-> md[k].Reading]

\* c differs from m * n by less than 1% of the magnitude of n
ApproxMultiple(c, m, n) ==
    /\ ~c.na
    /\ ~n.na
    /\ 100 * Abs(c.v - m * n.v) < Abs(n.v)

\* C10: the corrector's result is one forward sweep over the interior rows:
\* row k is replaced by the mean of the corrected row k-1 and the original
\* row k+1 when it is within tolerance of 2x both, or else of 3x both (the
\* ratio |c - m n| / n below 0.01, and in particular whenever c is within
\* 1% of the magnitude of n from m n), and is left alone otherwise; the
\* first and last rows and series shorter than
\* 3 are left alone; [100, 200, 100] becomes [100, 100, 100] and
\* [50, 150, 50] becomes [50, 50, 50] (here [200, 400, 200] and
\* [200, 601, 200], the latter 3x within the tolerance).
ForwardSweep ==
    pc = "corrected" =>
        /\ Len(meter_data) = Len(before)
        /\ \A k \in 1..Len(before) :
              LET c == before[k].Reading
              IN  IF k \notin Interior(before)
                  THEN meter_data[k].Reading = c
                  ELSE IF \/ WithinTolerance(c, 2, PrevOf(k))
                             /\ WithinTolerance(c, 2, NextOf(k))
                          \/ WithinTolerance(c, 3, PrevOf(k))
                             /\ WithinTolerance(c, 3, NextOf(k))
                  THEN /\ ~PrevOf(k).na
                       /\ ~NextOf(k).na
                       /\ ~meter_data[k].Reading.na
                       /\ 2 * meter_data[k].Reading.v
                             = PrevOf(k).v + NextOf(k).v
                  ELSE meter_data[k].Reading = c
        /\ \A k \in Interior(before) : \A m \in {2, 3} :
              (/\ ApproxMultiple(before[k].Reading, m, PrevOf(k))
               /\ ApproxMultiple(before[k].Reading, m, NextOf(k)))
              => meter_data[k].Reading = Mean(PrevOf(k), NextOf(k))
        /\ (Readings(before) = <<Num(200 * Unit), Num(400 * Unit), Num(200 * Unit)>>
              => Readings(meter_data)
                   = <<Num(200 * Unit), Num(200 * Unit), Num(200 * Unit)>>)
        /\ (Readings(before) = <<Num(200 * Unit), Num(601 * Unit), Num(200 * Unit)>>
              => Readings(meter_data)
                   = <<Num(200 * Unit), Num(200 * Unit), Num(200 * Unit)>>)

\* a finished pass that corrected two adjacent rows, the second one against
\* the corrected value of the first
ForwardSweepWitness ==
    /\ pc = "corrected"
    /\ \E k \in Interior(before) :
          /\ k + 1 \in Interior(before)
          /\ meter_data[k].Reading # before[k].Reading
          /\ meter_data[k + 1].Reading # before[k + 1].Reading
          /\ meter_data[k + 1].Reading
                = Mean(meter_data[k].Reading, before[k + 2].Reading)
          /\ meter_data[k].Reading # meter_data[k + 1].Reading

ZeroNeighbour(md, k) ==
    \/ md[k].Reading = Num(0)
    \/ md[k + 2].Reading = Num(0)

\* C6: at an interior index whose previous or next reading is 0 the test is
\* a non-match: the reading is left unchanged, the sweep goes on to the next
\* index, and the corrector never ends in a division fault.
ZeroNeighbourNoMatch ==
    /\ [](pc # "fault")
    /\ [][(pc = "sweep" /\ i <= Len(meter_data) - 2
             /\ ZeroNeighbour(meter_data, i))
          => (meter_data' = meter_data /\ i' = i + 1 /\ pc' = "sweep")]_vars

\* a finished pass over a series with a zero before or after an interior
\* row, one of them reached after the test against the other neighbour held
ZeroNeighbourWitness ==
    /\ pc = "corrected"
    /\ \E k \in Interior(before) : PrevOf(k) = Num(0)
    /\ \E k \in Interior(before) :
          /\ NextOf(k) = Num(0)
          /\ RelErrBelow(before[k].Reading, 2, PrevOf(k))

\* C9: a reading that does not show the multiple pattern is not changed: the
\* first and last rows, every row of a series shorter than 3, and every row
\* that is not approximately 2x both neighbours nor approximately 3x both
\* neighbours keep their reading; the timestamps and the number of rows are
\* never changed.
OnlyPatternChanged ==
    pc = "corrected" =>
        /\ Len(meter_data) = Len(before)
        /\ \A k \in 1..Len(before) :
              /\ meter_data[k].Timestamp = before[k].Timestamp
              /\ (\/ k \notin Interior(before)
                  \/ /\ ~(/\ ApproxMultiple(before[k].Reading, 2, PrevOf(k))
                          /\ ApproxMultiple(before[k].Reading, 2, NextOf(k)))
                     /\ ~(/\ ApproxMultiple(before[k].Reading, 3, PrevOf(k))
                          /\ ApproxMultiple(before[k].Reading, 3, NextOf(k))))
                 => meter_data[k].Reading = before[k].Reading

\* |c - m * n| / n < t for the configured tolerance t, n positive
BelowConfigured(c, m, n) ==
    /\ ~c.na
    /\ 1000 * Abs(c.v - m * n.v) < tolerance_percentage * n.v

\* C5: the match test uses the configured tolerance: between positive
\* neighbours an interior reading is replaced by their mean exactly when,
\* for multiplier 2 or else 3, its relative deviation from the multiple of
\* prev and of next are both below the configured fraction.
UsesConfiguredTolerance ==
    pc = "corrected" =>
        \A k \in Interior(before) :
            (/\ ~PrevOf(k).na /\ PrevOf(k).v > 0
             /\ ~NextOf(k).na /\ NextOf(k).v > 0)
            => IF \/ BelowConfigured(before[k].Reading, 2, PrevOf(k))
                     /\ BelowConfigured(before[k].Reading, 2, NextOf(k))
                  \/ BelowConfigured(before[k].Reading, 3, PrevOf(k))
                     /\ BelowConfigured(before[k].Reading, 3, NextOf(k))
               THEN meter_data[k].Reading = Mean(PrevOf(k), NextOf(k))
               ELSE meter_data[k].Reading = before[k].Reading

\* C4: with enable_correction false the corrector is a no-op: every reading
\* that leaves it equals the normalized reading that entered it.
DisabledIsNoOp ==
    (pc = "corrected" /\ ~enable_correction) =>
        Readings(meter_data) = Readings(before)

-----------------------------------------------------------------------------
(* Properties of calculate_meter_consumption (Spec) *)

\* the timeline slot a record's Timestamp stands for: the datetime itself,
\* or the minute read back from the fields of the formatted string
SlotOf(ts) ==
    IF Len(ts) = 1 THEN ts[1]
    ELSE (ts[1] - 1) * 1440 + ts[4] * 60 + ts[5]

\* C1: the returned series has exactly one record per master timeline slot,
\* in ascending timeline order, so its length is the timeline's, whatever
\* the input rows (none, one or many; duplicate or unparsable timestamps,
\* non-numeric readings, timestamps off the timeline).
OneRecordPerSlot ==
    pc = "done" =>
        /\ Len(result_df) = Len(master_timestamps)
        /\ \A k \in 1..Len(result_df) :
              k <= Len(master_timestamps)
                 => SlotOf(result_df[k].Timestamp) = master_timestamps[k]

\* a result for a frame with two numeric readings at one slot of the
\* timeline and a row with an unparsable timestamp
OneRecordPerSlotWitness ==
    /\ pc = "done"
    /\ \E a, b \in 1..Len(frame) :
          /\ a # b
          /\ frame[a].Timestamp = frame[b].Timestamp
          /\ frame[a].Timestamp = start
          /\ ~frame[a].Reading.text
          /\ ~frame[b].Reading.text
    /\ \E c \in 1..Len(frame) : frame[c].Timestamp = NaT
    /\ Len(result_df) = Len(master_timestamps)

\* the rows of the corrected series that have a numeric reading, ascending
Valid == Pick(meter_data, {k \in 1..Len(meter_data) :
                              meter_data[k].Reading.na = FALSE}, 1)

\* C2: every Volume Consumption of the output is >= 0; where a valid reading
\* is smaller than the previous valid reading the value recorded is 0.
NonNegativeConsumption ==
    pc = "done" =>
        /\ \A k \in 1..Len(result_df) :
              /\ ~result_df[k].VolumeConsumption.na
              /\ result_df[k].VolumeConsumption.v >= 0
        /\ \A j \in 2..Len(Valid) :
              Valid[j].Reading.v < Valid[j - 1].Reading.v
                 => \A k \in 1..Len(result_df) :
                       SlotOf(result_df[k].Timestamp) = Valid[j].Timestamp
                          => result_df[k].VolumeConsumption = Num(0)

\* a result for a series whose reading dropped at a slot of the timeline
NonNegativeConsumptionWitness ==
    /\ pc = "done"
    /\ \E j \in 2..Len(Valid) :
          /\ Valid[j].Reading.v < Valid[j - 1].Reading.v
          /\ \E k \in 1..Len(result_df) :
                SlotOf(result_df[k].Timestamp) = Valid[j].Timestamp

\* max(0, v[k] - v[k-1]) at the slot of the k-th valid reading (k >= 2), 0
\* at the slot of the first one and at every slot without a valid reading
Expected(t) ==
    IF \E j \in 2..Len(Valid) : Valid[j].Timestamp = t
    THEN LET j == CHOOSE j \in 2..Len(Valid) : Valid[j].Timestamp = t
             d == Valid[j].Reading.v - Valid[j - 1].Reading.v
         IN  IF d > 0 THEN d ELSE 0
    ELSE 0

RecordsCarryMeter ==
    pc = "done" => \A k \in 1..Len(result_df) : result_df[k].Meter = meter

-----------------------------------------------------------------------------
(* Properties of the batch loop (SpecMain) *)

\* C3: a failure while processing one meter does not abort the others:
\* when the run has ended, every meter whose own processing does not fail
\* has been processed and its series is in the packaged output, whatever the
\* position of the failing meter.
FailureIsolated ==
    main_pc \in {"complete", "failed"} =>
        \A k \in 1..Len(unique_meters) :
            unique_meters[k] \notin raises
               => \E e \in 1..Len(download) :
                     download[e].name = unique_meters[k]

====
